---- MODULE Spec2Model ----
(***************************************************************************)
(* TaskFlow API (src/app.py) over the tasks table (src/database.py).       *)
(*                                                                         *)
(* The store is the tasks table; every request handler is one action that  *)
(* reads the table, commits its change and leaves its response in `resp`   *)
(* (status code), `rows` (the Task rows of the response body) and `report` *)
(* (the body of /stats/).                                                  *)
(* Spec serves one request at a time; SpecConc serves two requests at the  *)
(* same time, step by step (query, commit, refresh).                       *)
(*                                                                         *)
(* A nullable column or optional request field holds None (<<>>) or        *)
(* Some(v) (<<v>>).  A request field that may also be left out of the JSON *)
(* body holds Unset (<<>>) or Given(x) (<<x>>) where x is what pydantic    *)
(* parsed: Given(None) is an explicit null.                                *)
(***************************************************************************)
EXTENDS Integers, Sequences, FiniteSets

VARIABLES tasks,    \* the tasks table: rowid -> row
          now,      \* the wall clock, datetime.now()
          req,      \* the parameters and body of the request being answered
          resp,     \* its response: [op, id, code, task_title]
          rows,     \* the Task rows of the last response body, in order
          report,   \* the last /stats/ body (counts)
          issued,   \* history: the ids create_task has returned so far
          marked,   \* history: the ids whose last write request was a
                    \* mark_task_done answered 200
          nreq,     \* history: number of write requests served
          sessions, \* the requests served at the same time, each with its
                    \* own Session: client -> [request, pc, loaded, ...]
          start_table, \* history: the table when those requests arrived
          steps     \* history: the clients whose steps ran, in order

vars == <<tasks, now, req, resp, rows, report, issued, marked, nreq,
          sessions, start_table, steps>>

\* the part of the state that only requests served at the same time use
conc == <<sessions, start_table, steps>>

----------------------------------------------------------------------------
(* Bounds of the model *)

MaxId == 2          \* rowids the table may hand out: 1..MaxId
MaxRequests == 2    \* POST/PUT/DELETE requests in one behaviour
MaxNow == 1         \* the clock runs from 0 to MaxNow
MaxDay == 1         \* timestamps cover the days 0..MaxDay
LastSec == 1        \* seconds of a day 0..LastSec; LastSec stands for 23:59:59
LastUs == 1         \* microseconds of a second 0..LastUs

----------------------------------------------------------------------------
(* Optional values *)

None == <<>>
Some(v) == <<v>>
Opt(S) == {None} \cup {Some(v) : v \in S}

Unset == <<>>
Given(x) == <<x>>
IsSet(f) == f # Unset
Field(S) == {Unset} \cup {Given(x) : x \in S}

----------------------------------------------------------------------------
(* datetime: a naive timestamp is the number of microseconds since day 0 *)

UsPerDay == (LastSec + 1) * (LastUs + 1)
Times == 0 .. ((MaxDay + 1) * UsPerDay - 1)
DayOf(t) == t \div UsPerDay
MicroOf(t) == t % (LastUs + 1)
DateTime(day, sec, us) == day * UsPerDay + sec * (LastUs + 1) + us

\* datetime.now().replace(hour=0, minute=0, second=0, microsecond=0)
today_start(t) == DateTime(DayOf(t), 0, 0)
\* datetime.now().replace(hour=23, minute=59, second=59): microsecond is kept
today_end(t) == DateTime(DayOf(t), LastSec, MicroOf(t))

\* datetime.utcnow, the column default of created_at
utcnow == now

----------------------------------------------------------------------------
(* Values of the request bodies *)

Titles == {"A", ""}
Descriptions == {"d"}
Priorities == {1, 6}
Statuses == {"todo", "in_progress", "done", "blocked"}
StatusStrings == Statuses \cup {"archived"}
\* today 00:00:00.000000, the last microsecond of today, tomorrow 00:00:00
DueDates == {DateTime(0, 0, 0), DateTime(0, LastSec, LastUs), DateTime(1, 0, 0)}

\* TaskBase.priority: int = 3
DefaultPriority == 3
\* get_tasks(limit: int = 100)
DefaultLimit == 100
Limits == {-1, 0, 1, DefaultLimit}
StatusParams == Opt({"", "todo", "done", "archived"})

\* the fields of a body that the JSON text contains
FieldsSet(body) == {f \in DOMAIN body : IsSet(body[f])}

\* JSON bodies of POST /tasks/: {"title": "A"}, bodies that differ from it in
\* one member, and one body that gives every member
CreateBodies ==
    LET Body(t, d, p, due) ==
            [title |-> t, description |-> d, priority |-> p, due_date |-> due]
    IN  {Body(t, Unset, Unset, Unset) : t \in Field(Titles)}
        \cup {Body(Given("A"), Unset, Given(6), Unset)}
        \cup {Body(Given("A"), Unset, Unset, Given(due)) :
                 due \in {DateTime(0, LastSec, LastUs), DateTime(1, 0, 0)}}
        \cup {Body(Given("A"), Given("d"), Given(1), Given(DateTime(0, 0, 0)))}

\* JSON bodies of PUT /tasks/{task_id}: {}, bodies with one member (a value
\* or null), and two bodies with several members
UpdateBodies ==
    LET Body(t, d, p, s, due) ==
            [title |-> t, description |-> d, priority |-> p, status |-> s,
             due_date |-> due]
        One == {DateTime(0, LastSec, LastUs)}
    IN  {Body(t, Unset, Unset, Unset, Unset) : t \in Field(Opt({""}))}
        \cup {Body(Unset, d, Unset, Unset, Unset) : d \in Field(Opt(Descriptions))}
        \cup {Body(Unset, Unset, p, Unset, Unset) : p \in Field(Opt({6}))}
        \cup {Body(Unset, Unset, Unset, s, Unset) : s \in Field(Opt(StatusStrings))}
        \cup {Body(Unset, Unset, Unset, Unset, due) : due \in Field(Opt(One))}
        \cup {Body(Given(Some("")), Unset, Given(Some(6)),
                    Given(Some("in_progress")), Unset),
               Body(Given(Some("A")), Given(None), Given(Some(1)),
                    Given(Some("done")), Given(Some(DateTime(1, 0, 0))))}

\* members of a PUT body that TaskUpdate does not declare
NoExtra == [id |-> Unset, created_at |-> Unset]
Extra == [id |-> Given(MaxId), created_at |-> Given(DateTime(1, 0, 0))]

\* the JSON texts of PUT /tasks/{task_id}: the bodies above, and two that
\* also name id and created_at
UpdateJsons ==
    {[body |-> b, extra |-> NoExtra] : b \in UpdateBodies}
    \cup {[body |-> b, extra |-> Extra] :
             b \in {u \in UpdateBodies :
                       \/ FieldsSet(u) = {}
                       \/ FieldsSet(u) = {"status"} /\ u.status = Given(Some("in_progress"))}}

----------------------------------------------------------------------------
(* The tasks table *)

Ids == 1 .. MaxId
StoredIds == DOMAIN tasks

Max(S) == CHOOSE x \in S : \A y \in S : y <= x
Min2(a, b) == IF a <= b THEN a ELSE b

\* id = Column(Integer, primary_key=True) on SQLite: the rowid, without
\* AUTOINCREMENT; an insert takes one more than the largest rowid in the table
NextRowid(t) == IF DOMAIN t = {} THEN 1 ELSE Max(DOMAIN t) + 1

\* Task(title=..., description=..., priority=..., due_date=...) as inserted:
\* status and created_at take their column defaults, updated_at stays NULL
Task(id, title, description, priority, due_date) ==
    [id |-> id, title |-> Some(title), description |-> description,
     status |-> Some("todo"), priority |-> Some(priority),
     created_at |-> utcnow, updated_at |-> None, due_date |-> due_date]

\* title = Column(String(200), nullable=False): the commit raises on NULL
CommitOk(task) == task.title # None

\* a table scan returns the rows in rowid order
RECURSIVE Scan(_)
Scan(S) ==
    IF S = {} THEN <<>>
    ELSE LET m == Max(S) IN Append(Scan(S \ {m}), tasks[m])

\* query.limit(n): a negative LIMIT is no limit in SQLite
Limit(seq, n) ==
    IF n < 0 THEN seq ELSE SubSeq(seq, 1, Min2(n, Len(seq)))

NoReport == [total_tasks |-> 0, todo |-> 0, in_progress |-> 0, done |-> 0,
             overdue_tasks |-> 0, completion_rate |-> <<>>]

\* the response: status code, the Task rows of its body, and for DELETE the
\* task_title of its message
Respond(op, id, code, body, title) ==
    /\ resp' = [op |-> op, id |-> id, code |-> code, task_title |-> title]
    /\ rows' = body
    /\ report' = NoReport

\* response_model=TaskResponse (title: str, priority: int, status: str): the
\* handler's return value is validated after its commit, and a row that holds
\* NULL in one of these columns fails the validation
TaskResponseValid(task) ==
    task.title # None /\ task.priority # None /\ task.status # None

\* the answer of a handler that returns Task rows: 200 with the rows, or the
\* 500 of the failed response validation
RespondTasks(op, id, body) ==
    IF \A k \in DOMAIN body : TaskResponseValid(body[k])
    THEN Respond(op, id, 200, body, None)
    ELSE Respond(op, id, 500, <<>>, None)

\* `return None` in place of the raise: an empty 200
TaskNotFoundReturnsNone(op, task_id) == Respond(op, task_id, 200, <<>>, None)

\* raise HTTPException(status_code=404, detail=f"Task {task_id} not found")
TaskNotFound(op, task_id) == Respond(op, task_id, 404, <<>>, None)

NoResponse == [op |-> "none", id |-> 0, code |-> 0, task_title |-> None]

\* the server takes a request when the response to the one before is out
Idle == resp = NoResponse

\* a POST, PUT or DELETE request is served
Served(request) ==
    /\ Idle /\ nreq < MaxRequests /\ nreq' = nreq + 1 /\ req' = request
    /\ UNCHANGED conc

\* a GET request is served
Read(request) ==
    Idle /\ req' = request /\ UNCHANGED <<tasks, issued, marked, nreq, conc>>

\* the columns of a row (database.py, class Task)
TypeOK ==
    /\ DOMAIN tasks \subseteq Ids
    /\ \A i \in DOMAIN tasks :
          /\ tasks[i].id = i
          /\ tasks[i].title # None
          /\ tasks[i].created_at \in Times
          /\ tasks[i].due_date \in Opt(Times)
    /\ now \in 0 .. MaxNow
    /\ nreq \in 0 .. MaxRequests

\* taskflow.db outlives the server: init_db() creates the table when it is
\* missing and keeps the rows an earlier run left.  The table starts empty or
\* with one task, created at time 0 from {"title": "A"}, todo or done.
StartTables ==
    {<<>>} \cup
    {<<[Task(1, "A", None, DefaultPriority, None) EXCEPT !.status = Some(s)]>> :
        s \in {"todo", "done"}}

Init ==
    /\ now = 0
    /\ tasks \in StartTables
    /\ req = <<>>
    /\ resp = NoResponse
    /\ rows = <<>>
    /\ report = NoReport
    /\ issued = DOMAIN tasks
    /\ marked = {}
    /\ nreq = 0
    /\ sessions = <<>>
    /\ start_table = <<>>
    /\ steps = <<>>

\* time passes between two requests
Tick ==
    /\ Idle
    /\ now < MaxNow
    /\ now' = now + 1
    /\ UNCHANGED <<tasks, req, resp, rows, report, issued, marked, nreq, conc>>

\* the response goes out to the client
SendResponse ==
    /\ ~Idle
    /\ req' = <<>>
    /\ resp' = NoResponse
    /\ rows' = <<>>
    /\ report' = NoReport
    /\ UNCHANGED <<tasks, now, issued, marked, nreq, conc>>

----------------------------------------------------------------------------
(* POST /tasks/ *)

\* TaskCreate(TaskBase): title is required, priority defaults to 3
TaskCreateValid(body) == IsSet(body.title)
\* TaskBase with `priority: int = 0`
TaskCreateNoDefault(body) ==
    [title |-> body.title[1],
     description |-> IF IsSet(body.description) THEN Some(body.description[1]) ELSE None,
     priority |-> IF IsSet(body.priority) THEN body.priority[1] ELSE 0,
     due_date |-> IF IsSet(body.due_date) THEN Some(body.due_date[1]) ELSE None]

TaskCreate(body) ==
    [title |-> body.title[1],
     description |-> IF IsSet(body.description) THEN Some(body.description[1]) ELSE None,
     priority |-> IF IsSet(body.priority) THEN body.priority[1] ELSE DefaultPriority,
     due_date |-> IF IsSet(body.due_date) THEN Some(body.due_date[1]) ELSE None]

create_task(body) ==
    /\ Served([body |-> body])
    /\ IF ~TaskCreateValid(body)
       THEN /\ Respond("create_task", 0, 422, <<>>, None)
            /\ UNCHANGED <<tasks, now, issued, marked>>
       ELSE LET task == TaskCreate(body)
                id == NextRowid(tasks)
                db_task == Task(id, task.title, task.description, task.priority,
                                task.due_date)
            IN  /\ id \in Ids
                /\ tasks' = [i \in DOMAIN tasks \cup {id} |->
                                IF i = id THEN db_task ELSE tasks[i]]
                /\ issued' = issued \cup {id}
                /\ RespondTasks("create_task", id, <<db_task>>)
                /\ UNCHANGED <<now, marked>>

----------------------------------------------------------------------------
(* GET /tasks/ and GET /tasks/{task_id} *)

\* query.filter(Task.status == status): NULL = 'x' is not true
StatusIs(task, status) == task.status = Some(status)

\* `if status:` is false for None and for the empty string
Filtered(status) ==
    IF status # None /\ status[1] # ""
    THEN {i \in StoredIds : StatusIs(tasks[i], status[1])}
    ELSE StoredIds

get_tasks(status, limit) ==
    /\ Read([status |-> status, limit |-> limit])
    /\ RespondTasks("get_tasks", 0, Limit(Scan(Filtered(status)), limit))
    /\ UNCHANGED now

get_task(task_id) ==
    /\ Read(<<>>)
    /\ UNCHANGED now
    /\ IF task_id \notin StoredIds
       THEN TaskNotFound("get_task", task_id)
       ELSE RespondTasks("get_task", task_id, <<tasks[task_id]>>)

----------------------------------------------------------------------------
(* PUT /tasks/{task_id} *)

\* TaskUpdate with model_config extra="allow": undeclared members are kept
TaskUpdateAllowExtra(json) ==
    [f \in DOMAIN json.body \cup DOMAIN json.extra |->
        IF f \in DOMAIN json.body THEN json.body[f] ELSE json.extra[f]]

\* task_update: TaskUpdate, parsed from the JSON text: pydantic ignores the
\* members the model does not declare
TaskUpdate(json) == json.body

\* model_dump() without exclude_unset: a field left out comes as its default None
model_dump_all(task_update) ==
    [f \in DOMAIN task_update |->
        IF IsSet(task_update[f]) THEN task_update[f][1] ELSE None]

\* task_update.model_dump(exclude_unset=True)
model_dump(task_update) ==
    [f \in FieldsSet(task_update) |-> task_update[f][1]]

\* the loop with `if value is not None` around setattr: a null is not applied
ApplyUpdateSkipNone(task, update_data) ==
    [f \in DOMAIN task |->
        IF f \in DOMAIN update_data /\ update_data[f] # None
        THEN update_data[f] ELSE task[f]]

\* the loop followed by task.updated_at = datetime.now()
ApplyUpdateTouch(task, update_data) ==
    [f \in DOMAIN task |->
        IF f \in DOMAIN update_data THEN update_data[f]
        ELSE IF f = "updated_at" THEN Some(now) ELSE task[f]]

\* for field, value in update_data.items(): setattr(task, field, value)
ApplyUpdate(task, update_data) ==
    [f \in DOMAIN task |-> IF f \in DOMAIN update_data THEN update_data[f] ELSE task[f]]

update_task(task_id, json) ==
    /\ Served([body |-> json.body, extra |-> json.extra])
    /\ marked' = marked \ {task_id}
    /\ UNCHANGED <<now, issued>>
    /\ IF task_id \notin StoredIds
       THEN /\ TaskNotFound("update_task", task_id)
            /\ UNCHANGED tasks
       ELSE LET task_update == TaskUpdate(json)
                task == ApplyUpdate(tasks[task_id], model_dump(task_update))
            IN  IF CommitOk(task)
                THEN /\ tasks' = [tasks EXCEPT ![task_id] = task]
                     /\ RespondTasks("update_task", task_id, <<task>>)
                ELSE /\ Respond("update_task", task_id, 500, <<>>, None)
                     /\ UNCHANGED tasks

----------------------------------------------------------------------------
(* DELETE /tasks/{task_id} *)

\* db.delete(task) without the commit: the row stays
db_delete_rolled_back(table, task_id) == table

\* db.query(Task).delete(): every row goes
db_delete_all(table, task_id) == <<>>

\* db.delete(task); db.commit()
db_delete(table, task_id) == [i \in DOMAIN table \ {task_id} |-> table[i]]

delete_task(task_id) ==
    /\ Served(<<>>)
    /\ marked' = marked \ {task_id}
    /\ UNCHANGED <<now, issued>>
    /\ IF task_id \notin StoredIds
       THEN /\ TaskNotFound("delete_task", task_id)
            /\ UNCHANGED tasks
       ELSE /\ tasks' = db_delete(tasks, task_id)
            /\ Respond("delete_task", task_id, 200, <<>>, tasks[task_id].title)

----------------------------------------------------------------------------
(* GET /tasks/today/ *)

\* Task.due_date.between(today_start, today_end): both ends included,
\* never true of a NULL due_date
DueBetween(task, lo, hi) ==
    task.due_date # None /\ lo <= task.due_date[1] /\ task.due_date[1] <= hi

TodaysIds(start, end) ==
    {i \in StoredIds :
        \/ DueBetween(tasks[i], start, end)
        \/ StatusIs(tasks[i], "in_progress")}

\* datetime.now() is read twice: once for today_start, and again, at the same
\* time or later, for today_end
get_todays_tasks ==
    /\ Read(<<>>)
    /\ \E later \in now .. MaxNow :
          /\ now' = later
          /\ RespondTasks("get_todays_tasks", 0,
                          Scan(TodaysIds(today_start(now), today_end(later))))

----------------------------------------------------------------------------
(* POST /tasks/{task_id}/done *)

\* the check against a status no task has
AlreadyDoneMisspelt(task) == task.status = Some("completed")

\* if task.status == "done"
AlreadyDone(task) == task.status = Some("done")

mark_task_done(task_id) ==
    /\ Served(<<>>)
    /\ UNCHANGED <<now, issued>>
    /\ IF task_id \notin StoredIds
       THEN /\ TaskNotFound("mark_task_done", task_id)
            /\ UNCHANGED <<tasks, marked>>
       ELSE IF AlreadyDone(tasks[task_id])
       THEN /\ Respond("mark_task_done", task_id, 400, <<>>, None)
            /\ UNCHANGED <<tasks, marked>>
       ELSE LET task == [tasks[task_id] EXCEPT !.status = Some("done")]
            IN  /\ tasks' = [tasks EXCEPT ![task_id] = task]
                /\ marked' = IF TaskResponseValid(task)
                             THEN marked \cup {task_id} ELSE marked
                /\ RespondTasks("mark_task_done", task_id, <<task>>)

----------------------------------------------------------------------------
(* GET /export/csv and GET /export/json *)

ExportParams == Opt({"done"})

\* the columns of the CSV file, in the order of fieldnames
CsvFields == {"id", "title", "description", "priority", "status", "due_date",
              "created_at"}

\* a cell of the CSV file: None and the empty string are both written as
\* the empty cell (None here)
CsvCell(v) == IF v = Some("") THEN None ELSE v

\* writer.writerow({...}): updated_at is not exported
CsvRow(task) ==
    [f \in CsvFields |->
        IF f \in {"title", "description", "status"}
        THEN CsvCell(task[f]) ELSE task[f]]

\* tasks_data.append({...}): the eight columns, the datetimes as ISO text
JsonRow(task) ==
    [f \in CsvFields \cup {"updated_at"} |-> task[f]]

\* the handlers return a stream and a list of dicts, not a response_model
export_tasks_csv(status) ==
    /\ Read([status |-> status])
    /\ UNCHANGED now
    /\ LET found == Scan(Filtered(status))
       IN  Respond("export_tasks_csv", 0, 200,
                   [k \in DOMAIN found |-> CsvRow(found[k])], None)

export_tasks_json(status) ==
    /\ Read([status |-> status])
    /\ UNCHANGED now
    /\ LET found == Scan(Filtered(status))
       IN  Respond("export_tasks_json", 0, 200,
                   [k \in DOMAIN found |-> JsonRow(found[k])], None)

----------------------------------------------------------------------------
(* GET /stats/ *)

Count(status) == Cardinality({i \in StoredIds : StatusIs(tasks[i], status)})

\* filter(Task.due_date < datetime.now(), Task.status != "done"): neither
\* comparison is true of a NULL
Overdue ==
    {i \in StoredIds :
        /\ tasks[i].due_date # None /\ tasks[i].due_date[1] < now
        /\ tasks[i].status # None /\ tasks[i].status # Some("done")}

\* f"{(done_tasks/total_tasks*100):.1f}%" in tenths of a percent, or the
\* literal "0%" (<<>>) of an empty table
CompletionRate(done_tasks, total_tasks) ==
    IF total_tasks > 0
    THEN <<(done_tasks * 2000 + total_tasks) \div (2 * total_tasks)>>
    ELSE <<>>

Stats ==
    [total_tasks |-> Cardinality(StoredIds),
     todo |-> Count("todo"),
     in_progress |-> Count("in_progress"),
     done |-> Count("done"),
     overdue_tasks |-> Cardinality(Overdue),
     completion_rate |-> CompletionRate(Count("done"), Cardinality(StoredIds))]

get_stats ==
    /\ Read(<<>>)
    /\ UNCHANGED now
    /\ resp' = [op |-> "get_stats", id |-> 0, code |-> 200, task_title |-> None]
    /\ rows' = <<>>
    /\ report' = Stats

----------------------------------------------------------------------------

Next ==
    \/ Tick
    \/ SendResponse
    \/ \E body \in CreateBodies : create_task(body)
    \/ \E status \in StatusParams, limit \in Limits : get_tasks(status, limit)
    \/ \E task_id \in Ids : get_task(task_id)
    \/ \E task_id \in Ids, json \in UpdateJsons : update_task(task_id, json)
    \/ \E task_id \in Ids : delete_task(task_id)
    \/ get_todays_tasks
    \/ \E task_id \in Ids : mark_task_done(task_id)
    \/ get_stats
    \/ \E status \in ExportParams : export_tasks_csv(status)
    \/ \E status \in ExportParams : export_tasks_json(status)

Spec == Init /\ [][Next]_vars

----------------------------------------------------------------------------
(* Requests served at the same time.  The handlers are plain `def`s, which  *)
(* run in worker threads, each with the Session that get_db gives it.  A    *)
(* handler reads its row, then commits, then refreshes the row it returns;  *)
(* another request's steps may run between these.                           *)

Clients == {1, 2}

EmptyJson ==
    [body |-> [title |-> Unset, description |-> Unset, priority |-> Unset,
               status |-> Unset, due_date |-> Unset],
     extra |-> NoExtra]

\* PUT bodies of the requests served together: {}, or status or title alone
ConcJsons ==
    {j \in UpdateJsons :
        j.extra = NoExtra /\ FieldsSet(j.body) \in {{}, {"status"}, {"title"}}}

\* update, markDone and delete of task_id
ConcRequests(task_id) ==
    {[op |-> "update_task", id |-> task_id, json |-> j] : j \in ConcJsons}
    \cup {[op |-> op, id |-> task_id, json |-> EmptyJson] :
             op \in {"mark_task_done", "delete_task"}}

\* tables of two tasks, each todo or done
ConcTables ==
    {[i \in {1, 2} |->
         [Task(i, "A", None, DefaultPriority, None) EXCEPT !.status = Some(st[i])]] :
        st \in [{1, 2} -> {"todo", "done"}]}

\* db = SessionLocal(): nothing loaded, nothing answered
NewSession(request) ==
    [request |-> request, pc |-> "query", loaded |-> None, task |-> None,
     code |-> 0, row |-> None, task_title |-> None]

Finished(s, code) == [s EXCEPT !.pc = "done", !.code = code]

\* db.query(Task).filter(Task.id == task_id).first()
first(table, task_id) ==
    IF task_id \in DOMAIN table THEN Some(table[task_id]) ELSE None

\* the handler up to its commit: the row is loaded into the session and
\* changed there, or the request ends with 404 or 400
StepQuery(table, s) ==
    LET r == s.request
        found == first(table, r.id)
        Pending(task) ==
            [s EXCEPT !.pc = "commit", !.loaded = found, !.task = Some(task)]
    IN  IF found = None THEN Finished(s, 404)
        ELSE IF r.op = "update_task"
        THEN Pending(ApplyUpdate(found[1], model_dump(TaskUpdate(r.json))))
        ELSE IF r.op = "mark_task_done"
        THEN IF AlreadyDone(found[1]) THEN Finished(s, 400)
             ELSE Pending([found[1] EXCEPT !.status = Some("done")])
        ELSE Pending(found[1])

\* the columns whose value in the session differs from the loaded one
Changed(s) == {f \in DOMAIN s.task[1] : s.task[1][f] # s.loaded[1][f]}

\* UPDATE tasks SET ... with no WHERE clause: the columns are set in every row
flush_every_row(table, task_id, task, changed) ==
    [j \in DOMAIN table |->
        [f \in DOMAIN table[j] |-> IF f \in changed THEN task[f] ELSE table[j][f]]]

\* the flush of a changed object: UPDATE tasks SET <changed columns>
\* WHERE tasks.id = task_id
flush(table, task_id, task, changed) ==
    [table EXCEPT ![task_id] =
        [f \in DOMAIN @ |-> IF f \in changed THEN task[f] ELSE @[f]]]

\* db.commit(): the DELETE or UPDATE of the session's row and the COMMIT, one
\* transaction of the database; it fails (500) on a NULL title and when the
\* row is no longer there
StepCommit(table, s) ==
    LET r == s.request
        Failed == [table |-> table, s |-> Finished(s, 500)]
    IN  IF r.op = "delete_task"
        THEN IF r.id \notin DOMAIN table THEN Failed
             ELSE [table |-> db_delete(table, r.id),
                   s |-> [Finished(s, 200) EXCEPT
                             !.task_title = s.loaded[1].title]]
        ELSE IF Changed(s) = {}
        THEN [table |-> table, s |-> [s EXCEPT !.pc = "refresh"]]
        ELSE IF ~CommitOk(s.task[1]) \/ r.id \notin DOMAIN table THEN Failed
        ELSE [table |-> flush(table, r.id, s.task[1], Changed(s)),
              s |-> [s EXCEPT !.pc = "refresh"]]

\* db.refresh(task); return task: the row is read again and goes through
\* response_model
StepRefresh(table, s) ==
    LET r == s.request
    IN  IF r.id \notin DOMAIN table THEN Finished(s, 500)
        ELSE IF ~TaskResponseValid(table[r.id]) THEN Finished(s, 500)
        ELSE [Finished(s, 200) EXCEPT !.row = Some(table[r.id])]

InitConc ==
    /\ now = 0
    /\ tasks \in ConcTables
    /\ start_table = tasks
    /\ \E i, j \in {1, 2} :
          \E r1 \in ConcRequests(i), r2 \in ConcRequests(j) :
             sessions = [c \in Clients |-> NewSession(IF c = 1 THEN r1 ELSE r2)]
    /\ steps = <<>>
    /\ req = <<>> /\ resp = NoResponse /\ rows = <<>>
    /\ report = NoReport /\ issued = DOMAIN tasks /\ marked = {} /\ nreq = 0

\* a step of client c's request leaves s in its session
Stepped(c, s) ==
    /\ sessions' = [sessions EXCEPT ![c] = s]
    /\ steps' = Append(steps, c)
    /\ UNCHANGED <<now, req, resp, rows, report, issued, marked, nreq, start_table>>

query_first(c) ==
    /\ sessions[c].pc = "query"
    /\ Stepped(c, StepQuery(tasks, sessions[c]))
    /\ UNCHANGED tasks

db_commit(c) ==
    /\ sessions[c].pc = "commit"
    /\ LET done == StepCommit(tasks, sessions[c])
       IN  tasks' = done.table /\ Stepped(c, done.s)

db_refresh(c) ==
    /\ sessions[c].pc = "refresh"
    /\ Stepped(c, StepRefresh(tasks, sessions[c]))
    /\ UNCHANGED tasks

NextConc ==
    \/ \E c \in Clients : query_first(c)
    \/ \E c \in Clients : db_commit(c)
    \/ \E c \in Clients : db_refresh(c)

SpecConc == InitConc /\ [][NextConc]_vars

----------------------------------------------------------------------------
(* Properties *)

Done(task) == task.status = Some("done")

\* the columns a TaskUpdate body can name
UpdateFields == {"title", "description", "priority", "status", "due_date"}

\* the step is the handler `op` answering a request for task i
Handles(op, i) == Idle /\ resp'.op = op /\ resp'.id = i

\* the ids of the rows of the response
RowIds == {rows[k].id : k \in DOMAIN rows}

\* C1 as stated: once a task's status is done, no operation changes it to
\* another value.
C1_DoneIsTerminal ==
    [][\A i \in DOMAIN tasks \cap DOMAIN tasks' :
          Done(tasks[i]) => Done(tasks'[i])]_vars

\* C1 amended: a task that is done stays done under every operation except
\* an update whose body names status: when a done task stops being done, the
\* step is update_task for that task and the request body has the status
\* member, whose value the task takes.
C1_DoneLeftOnlyByStatusUpdate ==
    [][\A i \in DOMAIN tasks \cap DOMAIN tasks' :
          (Done(tasks[i]) /\ ~Done(tasks'[i]))
          => /\ Handles("update_task", i)
             /\ "status" \in FieldsSet(req'.body)
             /\ tasks'[i].status = req'.body.status[1]]_vars

\* a done task of the start table was the target of a rejected mark_task_done
\* and of nothing else, and is done
C1_Witness ==
    /\ nreq = 1 /\ resp.op = "mark_task_done" /\ resp.code = 400
    /\ resp.id \in StoredIds /\ Done(tasks[resp.id])

\* C2: every stored task's status is one of todo, in_progress, done, blocked.
C2_StatusEnumerated ==
    \A i \in StoredIds : tasks[i].status \in {Some(s) : s \in Statuses}

\* C3: ids are unique and never reused: create never returns the id of a task
\* created earlier, deleted or not.
C3_IdNeverReused ==
    [][(Idle /\ resp'.op = "create_task" /\ resp'.code = 200)
         => (resp'.id \notin issued /\ resp'.id \notin DOMAIN tasks)]_vars

\* C4: a successful markDone, and a successful update that changes a field,
\* leave the task's updated_at equal to the time of the operation.
C4_MutationSetsUpdatedAt ==
    [][\A i \in Ids :
          (/\ Handles("mark_task_done", i) \/ Handles("update_task", i)
           /\ resp'.code = 200
           /\ tasks' # tasks)
          => tasks'[i].updated_at = Some(now')]_vars

\* C5: after a markDone answered 200 and until something else is requested
\* for that task, the task is stored with status done, and every further
\* markDone for it is answered 400 and changes nothing in the store.
C5_SecondMarkDoneRejected ==
    [][\A i \in marked :
          /\ i \in StoredIds /\ Done(tasks[i])
          /\ Handles("mark_task_done", i) => (resp'.code = 400 /\ tasks' = tasks)
          /\ i \in marked' => (i \in DOMAIN tasks' /\ Done(tasks'[i]))]_vars

\* a mark_task_done was answered 400 right after a mark_task_done for the
\* same task was answered 200
C5_Witness ==
    /\ resp.op = "mark_task_done" /\ resp.code = 400
    /\ resp.id \in marked /\ Done(tasks[resp.id])

\* C6: stats() reports total equal to the number of stored tasks, and the
\* counts of by_status add up to that total.
C6_StatsAddUp ==
    resp.op = "get_stats"
    => /\ report.total_tasks = Cardinality(StoredIds)
       /\ report.todo + report.in_progress + report.done = report.total_tasks

\* C7: after a successful update every field the body names holds the value
\* given (null included) and every other field keeps the value it had.
C7_UpdateAppliesGivenFieldsOnly ==
    [][\A i \in Ids :
          (Handles("update_task", i) /\ resp'.code = 200)
          => \A f \in UpdateFields :
                tasks'[i][f] =
                   IF f \in FieldsSet(req'.body) THEN req'.body[f][1]
                   ELSE tasks[i][f]]_vars

\* the first request, an update with the one member "title": "", was answered
\* 200; the done task of the start table has the empty title and its other
\* fields as they were
C7_Witness ==
    /\ nreq = 1 /\ resp.op = "update_task" /\ resp.code = 200
    /\ FieldsSet(req.body) = {"title"}
    /\ tasks[1].title = Some("") /\ tasks[1].priority = Some(DefaultPriority)
    /\ tasks[1].status = Some("done") /\ tasks[1].due_date = None
    /\ tasks[1].description = None

\* C8: an update whose body is empty, or names only values the task already
\* has, leaves the whole task as it was, updated_at included (the record it
\* returns is the stored one); and updated_at changes in no step that changes
\* none of the other fields.
C8_NoChangeUpdateLeavesTask ==
    [][/\ \A i \in StoredIds :
             (/\ Handles("update_task", i)
              /\ \A f \in FieldsSet(req'.body) : req'.body[f][1] = tasks[i][f])
             => /\ tasks' = tasks
                /\ resp'.code = 200 => rows' = <<tasks[i]>>
       /\ \A i \in DOMAIN tasks \cap DOMAIN tasks' :
             tasks'[i].updated_at # tasks[i].updated_at
             => \E f \in UpdateFields : tasks'[i][f] # tasks[i][f]]_vars

\* the first request, an update that names the status the task has, was
\* answered 200 and left the start table as it was
C8_Witness ==
    /\ nreq = 1 /\ resp.op = "update_task" /\ resp.code = 200
    /\ FieldsSet(req.body) = {"status"}
    /\ tasks \in StartTables

\* C9: today() returns exactly the tasks whose due_date lies between 00:00:00
\* and 23:59:59 of the current day, both included, or whose status is
\* in_progress.
C9_TodayIsDayRangeOrInProgress ==
    resp.op = "get_todays_tasks"
    => RowIds =
          {i \in StoredIds :
              \/ DueBetween(tasks[i], DateTime(DayOf(now), 0, 0),
                            DateTime(DayOf(now), LastSec, 0))
              \/ tasks[i].status = Some("in_progress")}

\* the step is get_tasks with a status parameter that filters
Lists == Idle /\ resp'.op = "get_tasks" /\ req'.status \notin {None, Some("")}

\* C10: for a status value s, list(status=s) returns exactly the stored tasks
\* whose status equals s: none with another status, none with status s
\* missing.
C10_ListReturnsAllWithStatus ==
    [][(Lists /\ req'.limit = DefaultLimit)
         => {rows'[k].id : k \in DOMAIN rows'}
               = {i \in StoredIds : tasks[i].status = req'.status}]_vars

\* C11: stats() reports as overdue the number of stored tasks whose status is
\* different from done and whose due_date is strictly before now; a task
\* without due_date and a done task are not counted.
C11_OverdueCountsPastDueNotDone ==
    resp.op = "get_stats"
    => report.overdue_tasks =
          Cardinality({i \in StoredIds :
                          /\ ~Done(tasks[i])
                          /\ tasks[i].due_date # None
                          /\ tasks[i].due_date[1] < now})

\* the ids of the tasks that were deleted: handed out once and not stored now
DeletedIds == issued \ StoredIds

\* C12: a successful delete(id) removes that task and lowers the number of
\* stored tasks by exactly one; afterwards get(id) is answered 404, no list
\* contains the task, and another delete(id) is answered 404 and changes
\* nothing.
C12_DeletedTaskIsGone ==
    [][\A i \in Ids :
          /\ (Handles("delete_task", i) /\ resp'.code = 200)
             => /\ i \in StoredIds /\ i \notin DOMAIN tasks'
                /\ Cardinality(DOMAIN tasks') = Cardinality(StoredIds) - 1
                /\ i \in issued' \ DOMAIN tasks'
          /\ i \in DeletedIds
             => /\ Handles("get_task", i) => resp'.code = 404
                /\ (Idle /\ resp'.op = "get_tasks")
                      => i \notin {rows'[k].id : k \in DOMAIN rows'}
                /\ Handles("delete_task", i)
                      => (resp'.code = 404 /\ tasks' = tasks)]_vars

\* get on the id of a task deleted before was answered 404
C12_Witness ==
    /\ resp.op = "get_task" /\ resp.code = 404
    /\ resp.id \in DeletedIds

\* what a create body gives for a member, or `otherwise` when it leaves it out
Supplied(body, f, otherwise) ==
    IF IsSet(body[f]) THEN Some(body[f][1]) ELSE otherwise

\* C13: every accepted create stores a new task with status todo, the
\* supplied priority or 3 when priority is omitted, a fresh id, created_at set
\* (to the time of the request) and updated_at null, the other fields as
\* supplied, and returns that record.
C13_CreateAssignsDefaults ==
    [][(Idle /\ resp'.op = "create_task" /\ resp'.code = 200)
         => LET i == resp'.id
                body == req'.body
            IN  /\ i \notin StoredIds /\ DOMAIN tasks' = StoredIds \cup {i}
                /\ tasks'[i].id = i
                /\ tasks'[i].status = Some("todo")
                /\ tasks'[i].priority = Supplied(body, "priority", Some(3))
                /\ tasks'[i].created_at = now' /\ tasks'[i].created_at \in Times
                /\ tasks'[i].updated_at = None
                /\ tasks'[i].title = Some(body.title[1])
                /\ tasks'[i].description = Supplied(body, "description", None)
                /\ tasks'[i].due_date = Supplied(body, "due_date", None)
                /\ rows' = <<tasks'[i]>>]_vars

\* a create that left priority out was answered with a todo task of priority 3
C13_Witness ==
    /\ resp.op = "create_task" /\ resp.code = 200
    /\ ~IsSet(req.body.priority)
    /\ rows[1].priority = Some(3) /\ rows[1].status = Some("todo")
    /\ rows[1].updated_at = None /\ tasks[resp.id] = rows[1]

\* C14: every stored task's title is a non-empty text: neither null nor the
\* empty string.
C14_TitleNeverEmpty ==
    \A i \in StoredIds : tasks[i].title # None /\ tasks[i].title # Some("")

\* C15: every stored task's priority is an integer from 1 to 5.
C15_PriorityInRange ==
    \A i \in StoredIds : tasks[i].priority \in {Some(p) : p \in 1 .. 5}

\* C16: id and created_at of a task stay what they were at creation for as
\* long as the task exists, whatever the bodies of the update and markDone
\* requests name: no step changes them.
C16_ServerFieldsImmutable ==
    [][\A i \in DOMAIN tasks \cap DOMAIN tasks' :
          /\ tasks'[i].id = i /\ tasks[i].id = i
          /\ tasks'[i].created_at = tasks[i].created_at]_vars

\* an update whose body names another id and another created_at, and a new
\* status, was answered 200 for a task of the start table: the status is
\* stored, id and created_at are those of the start table
C16_Witness ==
    /\ resp.op = "update_task" /\ resp.code = 200 /\ nreq = 1
    /\ req.extra = Extra /\ FieldsSet(req.body) = {"status"}
    /\ resp.id \in StoredIds
    /\ tasks[resp.id].status = req.body.status[1]
    /\ tasks[resp.id].id = resp.id /\ req.extra.id # Given(resp.id)
    /\ tasks[resp.id].created_at = 0 /\ req.extra.created_at # Given(0)

\* the handlers that take a task id
ById == {"get_task", "update_task", "delete_task", "mark_task_done"}

\* C17: get, update, delete and markDone of an id that is not stored are
\* answered 404 and leave the set of stored tasks and all their fields as
\* they were.
C17_AbsentIdIsNotFound ==
    [][\A i \in Ids \ StoredIds : \A op \in ById :
          Handles(op, i) => (resp'.code = 404 /\ tasks' = tasks)]_vars

\* an update that names a new status for an id that is not stored was
\* answered 404 while another task is stored
C17_Witness ==
    /\ resp.op = "update_task" /\ resp.code = 404
    /\ resp.id \notin StoredIds /\ StoredIds # {}
    /\ "status" \in FieldsSet(req.body)

\* the handlers that read
ReadOps == {"get_task", "get_tasks", "get_todays_tasks", "get_stats",
            "export_tasks_csv", "export_tasks_json"}

\* the stored tasks other than i are the same tasks with the same fields
\* after the step
OthersKept(i) ==
    \A j \in StoredIds \ {i} : j \in DOMAIN tasks' /\ tasks'[j] = tasks[j]

\* C18: update(id), markDone(id) and delete(id) leave every stored task with
\* another id exactly as it was and add none, create leaves every task that
\* was stored before as it was, and get, list, today, stats and the exports
\* leave the whole store unchanged.
C18_OnlyTargetChanges ==
    [][/\ \A i \in Ids :
             \A op \in {"update_task", "mark_task_done", "delete_task"} :
                Handles(op, i)
                => (OthersKept(i) /\ DOMAIN tasks' \subseteq StoredIds)
       /\ (Idle /\ resp'.op = "create_task")
             => (OthersKept(0) /\ DOMAIN tasks' \subseteq StoredIds \cup {resp'.id})
       /\ (Idle /\ resp'.op \in ReadOps) => tasks' = tasks]_vars

\* a delete was answered 200 and another task is still stored
C18_Witness ==
    /\ resp.op = "delete_task" /\ resp.code = 200
    /\ resp.id \notin StoredIds /\ StoredIds # {}

\* the next step of a request on a table, alone
Advance(table, s) ==
    IF s.pc = "query" THEN [table |-> table, s |-> StepQuery(table, s)]
    ELSE IF s.pc = "commit" THEN StepCommit(table, s)
    ELSE IF s.pc = "refresh" THEN [table |-> table, s |-> StepRefresh(table, s)]
    ELSE [table |-> table, s |-> s]

\* a request run from its first step to its last with no other request
\* between its steps
RunAlone(table, request) ==
    LET a == Advance(table, NewSession(request))
        b == Advance(a.table, a.s)
    IN  Advance(b.table, b.s)

\* what the client is answered
Answer(s) == [code |-> s.code, row |-> s.row, task_title |-> s.task_title]

BothDone == \A c \in Clients : sessions[c].pc = "done"

\* C19: two requests among update, markDone and delete that target different
\* existing ids end, under every interleaving of their steps, with the store
\* and the answers that running the one and then the other gives, in either
\* order.
C19_DifferentIdsIndependent ==
    (BothDone /\ sessions[1].request.id # sessions[2].request.id)
    => LET r1 == sessions[1].request
           r2 == sessions[2].request
           first1 == RunAlone(start_table, r1)
           then2 == RunAlone(first1.table, r2)
           first2 == RunAlone(start_table, r2)
           then1 == RunAlone(first2.table, r1)
       IN  /\ tasks = then2.table /\ tasks = then1.table
           /\ Answer(sessions[1]) = Answer(first1.s)
           /\ Answer(sessions[1]) = Answer(then1.s)
           /\ Answer(sessions[2]) = Answer(then2.s)
           /\ Answer(sessions[2]) = Answer(first2.s)

\* an update of task 1 and a markDone of task 2 both answered 200 and both
\* changed their task, the second having read and committed between the read
\* and the commit of the first
C19_Witness ==
    /\ BothDone
    /\ sessions[1].request.op = "update_task" /\ sessions[1].request.id = 1
    /\ sessions[2].request.op = "mark_task_done" /\ sessions[2].request.id = 2
    /\ sessions[1].code = 200 /\ sessions[2].code = 200
    /\ SubSeq(steps, 1, 4) = <<1, 2, 2, 1>>
    /\ tasks[1] # start_table[1] /\ tasks[2] # start_table[2]

====
